---- MODULE Spec2Model ----
(***************************************************************************)
(* Image-captioning / video-summarising HTTP service.                      *)
(*                                                                         *)
(* The repository holds four iterations of the same service:               *)
(*   "limited"    src/server.js:1-230      rate-limited, in-memory upload  *)
(*   "basic"      src/server.js:232-550    disk upload, model fallback     *)
(*   "clustered"  src/unnamed/part_000     cluster, cache, caption queue   *)
(*   "serverless" src/unnamed/part_001     disk upload, model fallback     *)
(*                                                                         *)
(* One request is followed from its arrival to its response.  Every await  *)
(* of the source is a suspension point: the step up to the await is one    *)
(* action, the settlement of the awaited promise is the next.              *)
(***************************************************************************)
EXTENDS Integers, Sequences, FiniteSets, TLC

VARIABLES
    variant,          \* which iteration of the service handles the request
    endpoint,         \* "summarize" or "caption"
    pc,               \* position of the handler
    videoId,          \* req.body.videoId, a sequence of characters
    langIdx,          \* index in langs of the candidate being awaited
    fetch,            \* per candidate: the getSubtitles promise
    timer,            \* per candidate: the setTimeout of the race
    raceResult,       \* per candidate: what Promise.race settled with
    transcriptData,   \* transcriptData / transcript
    usedLanguage,     \* usedLanguage / usedLang
    modelIdx,         \* index in modelNames of the model being awaited
    geminiResponse,   \* geminiResponse / response
    usedModel,        \* usedModel
    genErrors,        \* per model: the error its axios.post rejected with
    calls,            \* the external calls made so far, in order
    response,         \* the HTTP response sent (status 0: none yet)
    file,             \* req.file: whether it is present, decodable, its size
    targetKB,         \* targetKB
    width,            \* width passed to resize
    height,           \* height passed to resize
    minQ,             \* minQ / minQuality
    maxQ,             \* maxQ / maxQuality
    quality,          \* quality
    compressedBuffer, \* compressedBuffer: its quality and byte length
    encodes,          \* the encodes made so far: <<quality, bytes>>, in order
    captionQueue,     \* captionQueue: the requests whose task waits, in order
    activeCaptionRequests, \* activeCaptionRequests
    task,             \* per caption request: where its task is, its outcome
    inputPath,        \* inputPath of the disk handler ("null": not set)
    outputPath,       \* outputPath of the disk handler ("null": not set)
    disk,             \* the temporary files that exist
    cleanups,         \* the paths cleanupFile was called with, in order
    outcome,          \* what the disk handler answers once it has cleaned up
    envSet,           \* GEMINI_API1_LINK and GEMINI_API_KEY are both set
    responseCache,    \* responseCache: per key, the entry stored under it
    now,              \* Date.now(), in milliseconds since the server started
    fromCache,        \* the request was answered by cacheMiddleware
    requestNo         \* the number of the summarize request, in arrival order

resolverVars ==
    <<langIdx, fetch, timer, raceResult, transcriptData, usedLanguage>>

genVars ==
    <<modelIdx, geminiResponse, usedModel, genErrors>>

compressVars ==
    <<file, targetKB, width, height, minQ, maxQ, quality, compressedBuffer,
      encodes>>

requestVars ==
    <<variant, endpoint, videoId>>

queueVars ==
    <<captionQueue, activeCaptionRequests, task>>

diskVars ==
    <<inputPath, outputPath, disk, cleanups, outcome, envSet>>

cacheVars ==
    <<responseCache, now, fromCache, requestNo>>

vars ==
    <<requestVars, pc, calls, response, resolverVars, genVars, compressVars,
      queueVars, diskVars, cacheVars>>

(***************************************************************************)
(* Bounds of the model.                                                    *)
(***************************************************************************)
\* longest video identifier tried
MaxIdLen == 12

(***************************************************************************)
(* The four iterations and what each one has.                              *)
(***************************************************************************)
Variants == {"limited", "basic", "clustered", "serverless"}

\* the transcript loop races every getSubtitles call against a 10 s timer
HasTimeout(v) == v \in {"limited", "clustered"}

\* the summarize handler tests the identifier against /^[a-zA-Z0-9_-]{11}$/
HasIdPattern(v) == v \in {"limited", "clustered"}

\* summarizeYouTubeVideo tries modelNames in order
HasModelLoop(v) == v \in {"basic", "serverless"}

\* the candidates are tried by a for loop, followed by one check of the result
HasLangLoop(v) == v \in {"limited", "clustered"}

\* the joined transcript is cut to maxLength characters
HasTruncation(v) == v \in {"limited", "clustered"}

langs(v) ==
    << [code |-> "hi",   name |-> "Hindi"],
       [code |-> "en",   name |-> "English"],
       [code |-> "none", name |-> IF v = "limited" THEN "Auto" ELSE "Auto-detected"] >>

modelNames(v) ==
    IF HasModelLoop(v)
    THEN <<"gemini-1.5-flash", "gemini-1.5-pro", "gemini-pro">>
    ELSE <<"gemini-1.5-flash">>

Cands == 1..3

(***************************************************************************)
(* Video identifiers: sequences of characters.                             *)
(***************************************************************************)
\* characters of the class [a-zA-Z0-9_-] that the inputs use
PatternChars == {"a", "Z", "5", "_", "-"}

Rep(c, n) == [i \in 1..n |-> c]

Subst(s, i, c) == [s EXCEPT ![i] = c]

\* a request body without the videoId field
MissingId == <<"undefined">>

\* the identifiers tried: absent, empty, 10 to MaxIdLen letters, and 11
\* characters with one of them replaced, inside the class or outside it
VideoIdInputs ==
    {MissingId, <<>>}
    \cup {Rep("a", n) : n \in 10..MaxIdLen}
    \cup {Subst(Rep("a", 11), 1, c) : c \in {"_", "Z", " "}}
    \cup {Subst(Rep("a", 11), 11, c) : c \in {"-", "5", "!"}}

\* !videoId
Falsy(id) == id = MissingId \/ id = <<>>

\* /^[a-zA-Z0-9_-]{11}$/.test(videoId)
MatchesIdPattern(id) ==
    /\ Len(id) = 11
    /\ \A i \in 1..Len(id) : id[i] \in PatternChars

(***************************************************************************)
(* Transcripts.  A getSubtitles result is a list of caption fragments; the *)
(* model keeps the candidate it came from, the number of fragments, the    *)
(* length of the fragments' texts joined by " " and how many of those      *)
(* characters are white space at the two ends.                             *)
(***************************************************************************)
NoTranscript ==
    [defined |-> FALSE, src |-> "none", frags |-> 0, textLen |-> 0, pad |-> 0]

\* <<length of the joined text, white space at its ends>>
TextShapes ==
    {<<5, 0>>, <<11, 2>>, <<500, 0>>, <<8000, 0>>, <<8001, 0>>, <<9000, 0>>}

\* what getSubtitles can resolve with for the candidate `code`
SubtitleResults(code) ==
    {[defined |-> TRUE, src |-> code, frags |-> 0, textLen |-> 0, pad |-> 0]}
    \cup {[defined |-> TRUE, src |-> code, frags |-> 2,
           textLen |-> sh[1], pad |-> sh[2]] : sh \in TextShapes}

\* the check with its first half left out: an undefined transcript passes
TranscriptMissing_EmptyOnly(t) == t.defined /\ t.frags = 0

\* !transcript || transcript.length === 0
TranscriptMissing(t) == ~t.defined \/ t.frags = 0

\* transcriptText: transcript.map(t => t.text).join(" "), trimmed in "serverless"
transcriptText(v, t) ==
    [src |-> t.src,
     len |-> IF v = "serverless" THEN t.textLen - t.pad ELSE t.textLen,
     truncated |-> FALSE]

maxLength == 8000

\* the truncation with >= in place of >
finalTranscript_AtLimit(v, text) ==
    IF HasTruncation(v) /\ text.len >= maxLength
    THEN [src |-> text.src, len |-> maxLength + 3, truncated |-> TRUE]
    ELSE text

\* transcriptText.length > maxLength ? substring(0, maxLength) + "..." : text
finalTranscript(v, text) ==
    IF HasTruncation(v) /\ text.len > maxLength
    THEN [src |-> text.src, len |-> maxLength + 3, truncated |-> TRUE]
    ELSE text

NoPrompt ==
    [template |-> "none", text |-> [src |-> "none", len |-> 0, truncated |-> FALSE]]

\* the prompt sent with the summary request
prompt(v, lang, t) ==
    [template |->
        IF HasTruncation(v) THEN "key points"
        ELSE IF lang = "Hindi" THEN "Hindi" ELSE "English",
     text |-> finalTranscript(v, transcriptText(v, t))]

(***************************************************************************)
(* External calls, as the outside world sees them.                         *)
(***************************************************************************)
SubtitleCall(code) == [api |-> "getSubtitles", arg |-> code, prompt |-> NoPrompt]

GenerateCall(model, p) == [api |-> "axios.post", arg |-> model, prompt |-> p]

\* statuses an axios.post can reject with; 0: no response (network, timeout)
ErrorStatuses == {404, 429, 500, 0}

\* error.message of a rejected axios.post
AxiosMessage(status) ==
    CASE status = 404 -> "Request failed with status code 404"
      [] status = 429 -> "Request failed with status code 429"
      [] status = 500 -> "Request failed with status code 500"
      [] OTHER        -> "Network Error"

NoGeminiResponse == [defined |-> FALSE, model |-> "none", hasText |-> FALSE]

(***************************************************************************)
(* HTTP responses.  keys is the set of fields the JSON body carries.       *)
(***************************************************************************)
NoSummary == [kind |-> "none", model |-> "none"]

NoResponse ==
    [status |-> 0, keys |-> {}, success |-> FALSE, error |-> "", message |-> "",
     videoId |-> <<>>, summary |-> NoSummary, transcriptLanguage |-> "",
     modelUsed |-> "", caption |-> "none"]

\* res.status(status).json({ success: false, error })
FailureBody(status, msg) ==
    [NoResponse EXCEPT !.status = status, !.keys = {"success", "error"},
                       !.error = msg]

\* res.status(status).json({ error })
ErrorOnlyBody(status, msg) ==
    [NoResponse EXCEPT !.status = status, !.keys = {"error"}, !.error = msg]

\* res.status(status).json({ success: false, message })
MessageBody(status, msg) ==
    [NoResponse EXCEPT !.status = status, !.keys = {"success", "message"},
                       !.message = msg]

\* the 400 sent when videoId is missing
RequiredResponse(v) ==
    IF v \in {"limited", "serverless"}
    THEN FailureBody(400, "videoId is required")
    ELSE ErrorOnlyBody(400, "videoId is required")

\* the 400 sent when videoId does not match the pattern
InvalidIdResponse(v) ==
    IF v = "limited"
    THEN FailureBody(400, "Invalid videoId format")
    ELSE ErrorOnlyBody(400, "Invalid YouTube video ID format")

\* response.data.candidates?.[0]?.content?.parts?.[0]?.text || "No summary generated."
summary(g) ==
    IF g.hasText
    THEN [kind |-> "generated", model |-> g.model]
    ELSE [kind |-> "No summary generated.", model |-> "none"]

\* the 200 sent with the result of summarizeYouTubeVideo
SummaryResponse(v, id, g, lang, model) ==
    [NoResponse EXCEPT
        !.status = 200,
        !.keys = {"success", "videoId", "summary", "transcriptLanguage"}
                 \cup (IF HasModelLoop(v) THEN {"modelUsed"} ELSE {})
                 \cup (IF v = "clustered" THEN {"processingTime"} ELSE {}),
        !.success = TRUE,
        !.videoId = id,
        !.summary = summary(g),
        !.transcriptLanguage = lang,
        !.modelUsed = IF HasModelLoop(v) THEN model ELSE ""]

\* the error thrown when every transcript candidate was rejected
NoTranscriptMessage(v) ==
    CASE v = "limited"    -> "No transcript available"
      [] v = "clustered"  -> "No transcript available for this video"
      [] v = "basic"      -> "No transcript found in Hindi, English, or auto-generated formats."
      [] v = "serverless" -> "No transcript available for video ID"

\* the error thrown when the transcript obtained is missing or empty
EmptyTranscriptMessage(v) ==
    CASE v = "limited"    -> "No transcript available"
      [] v = "clustered"  -> "No transcript available for this video"
      [] v = "basic"      -> "No transcript data available for this video."
      [] v = "serverless" -> "No transcript data available for this video"

\* the error thrown when no model gave a response
AllModelsFailedMessage(v) ==
    IF v = "basic"
    THEN "All Gemini models failed"
    ELSE "All Gemini models failed to generate summary"

(***************************************************************************)
(* cacheMiddleware of "clustered".  The key `summary_${req.body.videoId}`  *)
(* is carried as the videoId itself (a body without videoId has the key    *)
(* summary_undefined).  cleanupCache runs when the cache has a multiple of *)
(* 100 entries, which the requests made here never fill.                   *)
(***************************************************************************)
CACHE_TTL == 300000

\* a key under which nothing is stored
NoEntry == [cached |-> FALSE, data |-> NoResponse, timestamp |-> 0]

\* Date.now() - cached.timestamp < CACHE_TTL
Fresh(entry, t) == t - entry.timestamp < CACHE_TTL

\* cached && Date.now() - cached.timestamp < CACHE_TTL
CacheHit ==
    /\ variant = "clustered"
    /\ responseCache[videoId].cached
    /\ Fresh(responseCache[videoId], now)

\* the res.json of cacheMiddleware storing whatever it is called with
CacheOnJson_AnyStatus ==
    responseCache' =
        IF variant = "clustered" /\ pc # "done" /\ pc' = "done"
        THEN [responseCache EXCEPT ![videoId] =
                 [cached |-> TRUE, data |-> response', timestamp |-> now]]
        ELSE responseCache

\* the res.json that cacheMiddleware installs: when the handler answers with
\* status 200 the body is stored under the key, with the time
CacheOnJson ==
    responseCache' =
        IF /\ variant = "clustered" /\ pc # "done" /\ pc' = "done"
           /\ response'.status = 200
        THEN [responseCache EXCEPT ![videoId] =
                 [cached |-> TRUE, data |-> response', timestamp |-> now]]
        ELSE responseCache

(***************************************************************************)
(* POST /summarize and summarizeYouTubeVideo.                              *)
(***************************************************************************)
\* res.json(body) ends the request
Reply(body) ==
    /\ pc' = "done"
    /\ response' = body

\* an error thrown in the handler's try: its catch answers 500 with the message
Throw(msg) == Reply(FailureBody(500, msg))

\* the catch with its two tests in the other order: the last model's error is
\* thrown on whatever its status
Rethrows_LastFirst(v, idx, status) ==
    CASE v = "basic"      -> status # 404
      [] v = "serverless" -> idx = Len(modelNames(v)) \/ status # 404
      [] OTHER            -> TRUE

\* the catch of the model loop throws the error on instead of going on
Rethrows(v, idx, status) ==
    CASE v = "basic"      -> status # 404
      [] v = "serverless" -> status # 404 /\ idx = Len(modelNames(v))
      [] OTHER            -> TRUE

\* from the end of the transcript stage to the await of the first axios.post
\* (GEMINI_API2_LINK and GEMINI_API_KEY are set: the test of part_001:218
\* passes)
AfterTranscript(t, lang) ==
    IF TranscriptMissing(t) THEN
        /\ Throw(EmptyTranscriptMessage(variant))
        /\ UNCHANGED <<calls, genVars>>
    ELSE IF variant = "serverless" /\ transcriptText(variant, t).len < 10 THEN
        /\ Throw("Transcript too short to summarize")
        /\ UNCHANGED <<calls, genVars>>
    ELSE
        /\ pc' = "awaitGen"
        /\ modelIdx' = 1
        /\ calls' = Append(calls, GenerateCall(modelNames(variant)[1],
                                               prompt(variant, lang, t)))
        /\ UNCHANGED <<response, geminiResponse, usedModel, genErrors>>

\* candidate i settled without a result (f, tm, rr: the promises after it):
\* go on to candidate i + 1, or leave the transcript stage
AfterFailedCandidate(i, f, tm, rr) ==
    IF i < Len(langs(variant)) THEN
        /\ langIdx' = i + 1
        /\ fetch' = [f EXCEPT ![i + 1] = "pending"]
        /\ timer' = [tm EXCEPT ![i + 1] =
                        IF HasTimeout(variant) THEN "armed" ELSE "none"]
        /\ raceResult' = [rr EXCEPT ![i + 1] = "pending"]
        /\ calls' = Append(calls, SubtitleCall(langs(variant)[i + 1].code))
        /\ UNCHANGED <<pc, response, transcriptData, usedLanguage, genVars>>
    ELSE
        /\ fetch' = f
        /\ timer' = tm
        /\ raceResult' = rr
        /\ UNCHANGED <<langIdx, transcriptData, usedLanguage>>
        /\ IF HasLangLoop(variant)
           THEN AfterTranscript(transcriptData, usedLanguage)
           ELSE /\ Throw(NoTranscriptMessage(variant))
                /\ UNCHANGED <<calls, genVars>>

\* the handler starting the three getSubtitles calls together
SummarizeRequest_StartsAll ==
    /\ endpoint = "summarize"
    /\ pc = "idle"
    /\ IF Falsy(videoId) THEN
           /\ Reply(RequiredResponse(variant))
           /\ UNCHANGED <<calls, resolverVars>>
       ELSE IF HasIdPattern(variant) /\ ~MatchesIdPattern(videoId) THEN
           /\ Reply(InvalidIdResponse(variant))
           /\ UNCHANGED <<calls, resolverVars>>
       ELSE
           /\ pc' = "awaitTranscript"
           /\ langIdx' = 1
           /\ fetch' = [i \in Cands |-> "pending"]
           /\ timer' = [timer EXCEPT ![1] =
                           IF HasTimeout(variant) THEN "armed" ELSE "none"]
           /\ raceResult' = [raceResult EXCEPT ![1] = "pending"]
           /\ calls' = calls \o [i \in Cands |-> SubtitleCall(langs(variant)[i].code)]
           /\ UNCHANGED <<response, transcriptData, usedLanguage>>
    /\ CacheOnJson
    /\ UNCHANGED <<requestVars, queueVars, diskVars, now, fromCache,
                   requestNo, genVars, compressVars>>

\* the handler, from the arrival of the request to its first await (videoId
\* is a string, so the typeof test of part_001:169 passes); in "clustered"
\* cacheMiddleware runs first and answers from a fresh entry
SummarizeRequest ==
    /\ endpoint = "summarize"
    /\ pc = "idle"
    /\ IF CacheHit THEN
           /\ Reply(responseCache[videoId].data)
           /\ fromCache' = TRUE
           /\ UNCHANGED <<calls, resolverVars, responseCache>>
       ELSE
           /\ IF Falsy(videoId) THEN
                  /\ Reply(RequiredResponse(variant))
                  /\ UNCHANGED <<calls, resolverVars>>
              ELSE IF HasIdPattern(variant) /\ ~MatchesIdPattern(videoId) THEN
                  /\ Reply(InvalidIdResponse(variant))
                  /\ UNCHANGED <<calls, resolverVars>>
              ELSE
                  /\ pc' = "awaitTranscript"
                  /\ langIdx' = 1
                  /\ fetch' = [fetch EXCEPT ![1] = "pending"]
                  /\ timer' = [timer EXCEPT ![1] =
                                  IF HasTimeout(variant) THEN "armed" ELSE "none"]
                  /\ raceResult' = [raceResult EXCEPT ![1] = "pending"]
                  /\ calls' = Append(calls, SubtitleCall(langs(variant)[1].code))
                  /\ UNCHANGED <<response, transcriptData, usedLanguage>>
           /\ CacheOnJson
           /\ UNCHANGED fromCache
    /\ UNCHANGED <<requestVars, queueVars, diskVars, now, requestNo, genVars,
                   compressVars>>

\* the loop without its break: a result is kept and the next candidate tried
FetchFulfils_NoBreak(t) ==
    /\ pc = "awaitTranscript"
    /\ fetch[langIdx] = "pending"
    /\ t \in SubtitleResults(langs(variant)[langIdx].code)
    /\ transcriptData' = t
    /\ usedLanguage' = langs(variant)[langIdx].name
    /\ IF langIdx < Len(langs(variant)) THEN
           /\ langIdx' = langIdx + 1
           /\ fetch' = [fetch EXCEPT ![langIdx] = "fulfilled",
                                     ![langIdx + 1] = "pending"]
           /\ raceResult' = [raceResult EXCEPT ![langIdx] = "fulfilled",
                                               ![langIdx + 1] = "pending"]
           /\ timer' = [timer EXCEPT ![langIdx + 1] =
                           IF HasTimeout(variant) THEN "armed" ELSE "none"]
           /\ calls' = Append(calls, SubtitleCall(langs(variant)[langIdx + 1].code))
           /\ UNCHANGED <<pc, response, genVars>>
       ELSE
           /\ fetch' = [fetch EXCEPT ![langIdx] = "fulfilled"]
           /\ raceResult' = [raceResult EXCEPT ![langIdx] = "fulfilled"]
           /\ AfterTranscript(t, langs(variant)[langIdx].name)
           /\ UNCHANGED <<langIdx, timer>>
    /\ CacheOnJson
    /\ UNCHANGED <<requestVars, queueVars, diskVars, now, fromCache,
                   requestNo, compressVars>>

\* the awaited getSubtitles call resolves with t
FetchFulfils(t) ==
    /\ pc = "awaitTranscript"
    /\ fetch[langIdx] = "pending"
    /\ t \in SubtitleResults(langs(variant)[langIdx].code)
    /\ fetch' = [fetch EXCEPT ![langIdx] = "fulfilled"]
    /\ raceResult' = [raceResult EXCEPT ![langIdx] = "fulfilled"]
    /\ transcriptData' = t
    /\ usedLanguage' = langs(variant)[langIdx].name
    /\ AfterTranscript(t, langs(variant)[langIdx].name)
    /\ CacheOnJson
    /\ UNCHANGED <<requestVars, queueVars, diskVars, now, fromCache, requestNo,
                   langIdx, timer, compressVars>>

\* the awaited getSubtitles call rejects
FetchRejects ==
    /\ pc = "awaitTranscript"
    /\ fetch[langIdx] = "pending"
    /\ AfterFailedCandidate(langIdx,
                            [fetch EXCEPT ![langIdx] = "rejected"],
                            timer,
                            [raceResult EXCEPT ![langIdx] = "rejected"])
    /\ CacheOnJson
    /\ UNCHANGED <<requestVars, queueVars, diskVars, now, fromCache,
                   requestNo, compressVars>>

\* the 10 s timer of the awaited race fires before getSubtitles settles
TimeoutFires ==
    /\ pc = "awaitTranscript"
    /\ fetch[langIdx] = "pending"
    /\ timer[langIdx] = "armed"
    /\ AfterFailedCandidate(langIdx,
                            fetch,
                            [timer EXCEPT ![langIdx] = "fired"],
                            [raceResult EXCEPT ![langIdx] = "timeout"])
    /\ CacheOnJson
    /\ UNCHANGED <<requestVars, queueVars, diskVars, now, fromCache,
                   requestNo, compressVars>>

\* the late settlement with its result taken as the transcript
LateFetchSettles_Adopts(i, how) ==
    /\ raceResult[i] = "timeout"
    /\ fetch[i] = "pending"
    /\ how \in {"fulfilled", "rejected"}
    /\ fetch' = [fetch EXCEPT ![i] = how]
    /\ IF how = "fulfilled" THEN
           /\ transcriptData' = [defined |-> TRUE, src |-> langs(variant)[i].code,
                                 frags |-> 2, textLen |-> 500, pad |-> 0]
           /\ usedLanguage' = langs(variant)[i].name
       ELSE UNCHANGED <<transcriptData, usedLanguage>>
    /\ UNCHANGED <<requestVars, queueVars, diskVars, cacheVars,
                   pc, calls, response, langIdx, timer, raceResult,
                   genVars, compressVars>>

\* a getSubtitles call whose race was lost to the timer settles afterwards
LateFetchSettles(i, how) ==
    /\ raceResult[i] = "timeout"
    /\ fetch[i] = "pending"
    /\ how \in {"fulfilled", "rejected"}
    /\ fetch' = [fetch EXCEPT ![i] = how]
    /\ UNCHANGED <<requestVars, queueVars, diskVars, cacheVars,
                   pc, calls, response, langIdx, timer, raceResult,
                   transcriptData, usedLanguage, genVars, compressVars>>

\* the timer of a race that getSubtitles won fires afterwards
StaleTimerFires(i) ==
    /\ raceResult[i] \in {"fulfilled", "rejected"}
    /\ timer[i] = "armed"
    /\ timer' = [timer EXCEPT ![i] = "fired"]
    /\ UNCHANGED <<requestVars, queueVars, diskVars, cacheVars,
                   pc, calls, response, langIdx, fetch, raceResult,
                   transcriptData, usedLanguage, genVars, compressVars>>

\* the awaited axios.post resolves, with or without generated text
GenerateFulfils(hasText) ==
    /\ endpoint = "summarize"
    /\ pc = "awaitGen"
    /\ LET m == modelNames(variant)[modelIdx]
           g == [defined |-> TRUE, model |-> m, hasText |-> hasText]
       IN  /\ geminiResponse' = g
           /\ usedModel' = IF HasModelLoop(variant) THEN m ELSE usedModel
           /\ Reply(SummaryResponse(variant, videoId, g, usedLanguage, usedModel'))
    /\ CacheOnJson
    /\ UNCHANGED <<requestVars, queueVars, diskVars, now, fromCache, requestNo,
                   calls, resolverVars, modelIdx, genErrors,
                   compressVars>>

\* the awaited axios.post rejects with an HTTP status (0: without a response)
GenerateRejects(status) ==
    /\ endpoint = "summarize"
    /\ pc = "awaitGen"
    /\ genErrors' = [genErrors EXCEPT ![modelIdx] = status]
    /\ IF Rethrows(variant, modelIdx, status) THEN
           /\ Throw(AxiosMessage(status))
           /\ UNCHANGED <<calls, modelIdx>>
       ELSE IF modelIdx < Len(modelNames(variant)) THEN
           /\ modelIdx' = modelIdx + 1
           /\ calls' = Append(calls,
                  GenerateCall(modelNames(variant)[modelIdx + 1],
                               prompt(variant, usedLanguage, transcriptData)))
           /\ UNCHANGED <<pc, response>>
       ELSE
           /\ Throw(AllModelsFailedMessage(variant))
           /\ UNCHANGED <<calls, modelIdx>>
    /\ CacheOnJson
    /\ UNCHANGED <<requestVars, queueVars, diskVars, now, fromCache, requestNo,
                   resolverVars, geminiResponse, usedModel,
                   compressVars>>

(***************************************************************************)
(* compressImageFromBuffer ("limited", "clustered").  Sizes are in bytes:  *)
(* sizeKB = compressedBuffer.length / 1024 is compared without rounding.   *)
(***************************************************************************)
maxDim == 1920

\* a / b rounded to the nearest integer, halves up, for positive a and b
RoundDiv(a, b) == (2 * a + b) \div (2 * b)

\* Math.round(x * ratio), where x * ratio is a / b: the nearest integer; when
\* a / b is half-way between two integers the doubles decide which of the two
\* (11 * (1920 / 2816) is 7.499999999999999 and rounds to 7, 1 * (1920 / 3840)
\* is 0.5 and rounds to 1)
RoundOutcomes(a, b) ==
    IF (2 * a) % (2 * b) = b THEN {a \div b, a \div b + 1} ELSE {RoundDiv(a, b)}

\* the scaling with Math.max in place of Math.min
resizeDims_MaxRatio(w, h) ==
    IF w > maxDim \/ h > maxDim
    THEN LET m == IF w > h THEN h ELSE w
         IN  RoundOutcomes(w * maxDim, m) \X RoundOutcomes(h * maxDim, m)
    ELSE {<<w, h>>}

\* the widths and heights that can be passed to resize: scaled by
\* min(maxDim/w, maxDim/h) when either is above maxDim
resizeDims(w, h) ==
    IF w > maxDim \/ h > maxDim
    THEN LET m == IF w > h THEN w ELSE h
         IN  RoundOutcomes(w * maxDim, m) \X RoundOutcomes(h * maxDim, m)
    ELSE {<<w, h>>}

\* the uploads tried: absent, undecodable, decodable only as far as its header,
\* and decodable at two sizes, one of them above maxDim
FileInputs ==
    {[present |-> FALSE, decodable |-> "none", width |-> 0, height |-> 0],
     [present |-> TRUE, decodable |-> "none", width |-> 0, height |-> 0],
     [present |-> TRUE, decodable |-> "header", width |-> 800, height |-> 600],
     [present |-> TRUE, decodable |-> "full", width |-> 800, height |-> 600],
     [present |-> TRUE, decodable |-> "full", width |-> 4000, height |-> 3000]}

\* byte lengths an encode can have, as distances from the target's
SizeOffsets == {-10240, -10239, 0, 1, 10239, 10240, 50000}

EncodedSizes(kb) == {1024 * kb + d : d \in SizeOffsets}

\* sizeKB <= targetKB
FitsTarget(bytes, kb) == bytes <= 1024 * kb

\* the test of the break with <= in place of <
CloseEnough_Inclusive(bytes, kb) ==
    /\ bytes - 1024 * kb <= 10 * 1024
    /\ 1024 * kb - bytes <= 10 * 1024

\* Math.abs(sizeKB - targetKB) < 10
CloseEnough(bytes, kb) ==
    /\ bytes - 1024 * kb < 10 * 1024
    /\ 1024 * kb - bytes < 10 * 1024

\* Math.floor((minQ + maxQ) / 2)
Midpoint(lo, hi) == (lo + hi) \div 2

\* the body of the handler's request to the caption model
CaptionCall(buf) ==
    [api |-> "axios.post", arg |-> "GEMINI_API1_LINK",
     prompt |-> [template |-> "captions",
                 text |-> [src |-> "image", len |-> buf.bytes, truncated |-> FALSE]]]

\* res.json({ success: true, caption })
CaptionResponse ==
    [NoResponse EXCEPT !.status = 200, !.keys = {"success", "caption"},
                       !.success = TRUE, !.caption = "generated"]

(***************************************************************************)
(* POST /caption of "limited".                                             *)
(***************************************************************************)
\* the handler, from the arrival of the request to the await of metadata()
CaptionRequest ==
    /\ endpoint = "caption"
    /\ pc = "idle"
    /\ IF ~file.present THEN
           /\ Reply(MessageBody(400, "No image uploaded"))
           /\ UNCHANGED targetKB
       ELSE
           /\ pc' = "awaitMetadata"
           /\ targetKB' = 200
           /\ UNCHANGED response
    /\ UNCHANGED <<requestVars, queueVars, diskVars, cacheVars,
                   calls, resolverVars, genVars, file, width, height,
                   minQ, maxQ, quality, compressedBuffer, encodes>>

\* metadata() settles: the dimensions are fixed and the first encode starts
MetadataSettles ==
    /\ pc = "awaitMetadata"
    /\ IF file.decodable = "none" THEN
           /\ Throw("Input buffer contains unsupported image format")
           /\ UNCHANGED <<width, height, minQ, maxQ, quality>>
       ELSE
           /\ \E d \in resizeDims(file.width, file.height) :
                  width' = d[1] /\ height' = d[2]
           /\ minQ' = 10
           /\ maxQ' = 95
           /\ quality' = Midpoint(10, 95)
           /\ pc' = "awaitEncode"
           /\ UNCHANGED response
    /\ UNCHANGED <<requestVars, queueVars, diskVars, cacheVars,
                   calls, resolverVars, genVars, file, targetKB,
                   compressedBuffer, encodes>>

\* the turn of the loop keeping the best encoding at or below the target
EncodeSettles_KeepsBest(bytes) ==
    /\ pc = "awaitEncode"
    /\ file.decodable = "full"
    /\ bytes \in EncodedSizes(targetKB)
    /\ compressedBuffer' =
           IF \/ FitsTarget(bytes, targetKB)
              \/ ~\E a \in 1..Len(encodes) : FitsTarget(encodes[a][2], targetKB)
           THEN [quality |-> quality, bytes |-> bytes]
           ELSE compressedBuffer
    /\ encodes' = Append(encodes, <<quality, bytes>>)
    /\ minQ' = IF FitsTarget(bytes, targetKB) THEN quality + 1 ELSE minQ
    /\ maxQ' = IF FitsTarget(bytes, targetKB) THEN maxQ ELSE quality - 1
    /\ IF CloseEnough(bytes, targetKB) \/ minQ' > maxQ' THEN
           /\ pc' = "awaitGen"
           /\ calls' = Append(calls, CaptionCall(compressedBuffer'))
           /\ UNCHANGED quality
       ELSE
           /\ quality' = Midpoint(minQ', maxQ')
           /\ UNCHANGED <<pc, calls>>
    /\ UNCHANGED <<requestVars, queueVars, diskVars, cacheVars,
                   response, resolverVars, genVars, file, targetKB,
                   width, height>>

\* the turn of the loop with minQ = quality in place of minQ = quality + 1
EncodeSettles_FloorStays(bytes) ==
    /\ pc = "awaitEncode"
    /\ file.decodable = "full"
    /\ bytes \in EncodedSizes(targetKB)
    /\ compressedBuffer' = [quality |-> quality, bytes |-> bytes]
    /\ encodes' = Append(encodes, <<quality, bytes>>)
    /\ minQ' = IF FitsTarget(bytes, targetKB) THEN quality ELSE minQ
    /\ maxQ' = IF FitsTarget(bytes, targetKB) THEN maxQ ELSE quality - 1
    /\ IF CloseEnough(bytes, targetKB) \/ minQ' > maxQ' THEN
           /\ pc' = "awaitGen"
           /\ calls' = Append(calls, CaptionCall(compressedBuffer'))
           /\ UNCHANGED quality
       ELSE
           /\ quality' = Midpoint(minQ', maxQ')
           /\ UNCHANGED <<pc, calls>>
    /\ UNCHANGED <<requestVars, queueVars, diskVars, cacheVars,
                   response, resolverVars, genVars, file, targetKB,
                   width, height>>

\* toBuffer() resolves with an encoding of `bytes` bytes: one turn of the loop
EncodeSettles(bytes) ==
    /\ pc = "awaitEncode"
    /\ file.decodable = "full"
    /\ bytes \in EncodedSizes(targetKB)
    /\ compressedBuffer' = [quality |-> quality, bytes |-> bytes]
    /\ encodes' = Append(encodes, <<quality, bytes>>)
    /\ minQ' = IF FitsTarget(bytes, targetKB) THEN quality + 1 ELSE minQ
    /\ maxQ' = IF FitsTarget(bytes, targetKB) THEN maxQ ELSE quality - 1
    /\ IF CloseEnough(bytes, targetKB) \/ minQ' > maxQ' THEN
           /\ pc' = "awaitGen"
           /\ calls' = Append(calls, CaptionCall(compressedBuffer'))
           /\ UNCHANGED quality
       ELSE
           /\ quality' = Midpoint(minQ', maxQ')
           /\ UNCHANGED <<pc, calls>>
    /\ UNCHANGED <<requestVars, queueVars, diskVars, cacheVars,
                   response, resolverVars, genVars, file, targetKB,
                   width, height>>

\* toBuffer() rejects: the pixel data cannot be decoded
EncodeRejects ==
    /\ pc = "awaitEncode"
    /\ file.decodable = "header"
    /\ Throw("Input file contains corrupt image data")
    /\ UNCHANGED <<requestVars, queueVars, diskVars, cacheVars,
                   calls, resolverVars, genVars, compressVars>>

\* the awaited axios.post resolves, with or without caption text
CaptionFulfils(hasText) ==
    /\ endpoint = "caption"
    /\ pc = "awaitGen"
    /\ geminiResponse' =
           [defined |-> TRUE, model |-> "GEMINI_API1_LINK", hasText |-> hasText]
    /\ IF hasText
       THEN Reply(CaptionResponse)
       ELSE Throw("No caption returned")
    /\ UNCHANGED <<requestVars, queueVars, diskVars, cacheVars,
                   calls, resolverVars, modelIdx, usedModel,
                   genErrors, compressVars>>

\* the awaited axios.post rejects
CaptionRejects(status) ==
    /\ endpoint = "caption"
    /\ pc = "awaitGen"
    /\ genErrors' = [genErrors EXCEPT ![1] = status]
    /\ Throw(AxiosMessage(status))
    /\ UNCHANGED <<requestVars, queueVars, diskVars, cacheVars,
                   calls, resolverVars, modelIdx, geminiResponse,
                   usedModel, compressVars>>

(***************************************************************************)
(* The caption queue of "clustered": processCaptionQueue and the tasks of  *)
(* POST /caption.  Requests are numbered in arrival order.  A step runs    *)
(* from one event of the event loop to the next await: the continuations   *)
(* that a settled promise schedules run before the next event is taken.    *)
(* The awaits inside compressImageFromBuffer are one step of a task here.  *)
(***************************************************************************)
\* the number of caption requests that arrive
MaxRequests == 7

MAX_CONCURRENT_CAPTIONS == 5

Requests == 1..MaxRequests

\* a request that has not arrived
NoTask == [at |-> "none", runs |-> 0, settles |-> 0, status |-> 0]

\* the requests that have arrived
Arrived == {r \in Requests : task[r].at # "none"}

\* the tasks whose process() was called and has not returned
Running == {r \in Requests : task[r].at \in {"compress", "generate"}}

\* the loop test with <= in place of <
CanStart_Inclusive(q, active) ==
    Len(q) > 0 /\ active <= MAX_CONCURRENT_CAPTIONS

\* the test of the while loop of processCaptionQueue
CanStart(q, active) ==
    Len(q) > 0 /\ active < MAX_CONCURRENT_CAPTIONS

\* processCaptionQueue reading the head of the queue without removing it
processCaptionQueue_Peeks(q, active, t) ==
    IF CanStart(q, active) THEN
        /\ captionQueue' = q
        /\ activeCaptionRequests' = active + 1
        /\ task' = [t EXCEPT ![Head(q)].at = "compress",
                             ![Head(q)].runs = @ + 1]
    ELSE
        /\ captionQueue' = q
        /\ activeCaptionRequests' = active
        /\ task' = t

\* processCaptionQueue taking the task pushed last (pop in place of shift)
processCaptionQueue_TakesLast(q, active, t) ==
    IF CanStart(q, active) THEN
        /\ captionQueue' = SubSeq(q, 1, Len(q) - 1)
        /\ activeCaptionRequests' = active + 1
        /\ task' = [t EXCEPT ![q[Len(q)]].at = "compress",
                             ![q[Len(q)]].runs = @ + 1]
    ELSE
        /\ captionQueue' = q
        /\ activeCaptionRequests' = active
        /\ task' = t

\* processCaptionQueue from its loop test to its await: it takes the head of
\* the queue and calls its process(), which runs to its first await
processCaptionQueue(q, active, t) ==
    IF CanStart(q, active) THEN
        /\ captionQueue' = Tail(q)
        /\ activeCaptionRequests' = active + 1
        /\ task' = [t EXCEPT ![Head(q)].at = "compress",
                             ![Head(q)].runs = @ + 1]
    ELSE
        /\ captionQueue' = q
        /\ activeCaptionRequests' = active
        /\ task' = t

\* the return of a task with the loop of processCaptionQueue left after one
\* turn (if in place of while)
TaskReturns_OneTurn(r, status) ==
    /\ captionQueue' = captionQueue
    /\ activeCaptionRequests' = activeCaptionRequests - 1
    /\ task' = [task EXCEPT ![r].at = "done",
                            ![r].settles = @ + 1,
                            ![r].status = status]

\* process() has settled the promise of its request and returned: the handler
\* answers, the finally of processCaptionQueue runs, and its loop goes round
TaskReturns(r, status) ==
    processCaptionQueue(captionQueue,
                        activeCaptionRequests - 1,
                        [task EXCEPT ![r].at = "done",
                                     ![r].settles = @ + 1,
                                     ![r].status = status])

\* POST /caption arrives: without a file it is answered 400; with one its task
\* is pushed and processCaptionQueue is called
CaptionArrives(hasFile) ==
    /\ variant = "clustered" /\ endpoint = "caption"
    /\ Cardinality(Arrived) < MaxRequests
    /\ LET r == Cardinality(Arrived) + 1 IN
         IF ~hasFile THEN
             /\ task' = [task EXCEPT ![r].at = "done", ![r].status = 400]
             /\ UNCHANGED <<captionQueue, activeCaptionRequests>>
         ELSE
             processCaptionQueue(Append(captionQueue, r),
                                 activeCaptionRequests,
                                 [task EXCEPT ![r].at = "queued"])
    /\ UNCHANGED <<requestVars, diskVars, cacheVars, pc, calls, response,
                   resolverVars,
                   genVars, compressVars>>

\* compressImageFromBuffer of task r returns its buffer: axios.post is awaited
CompressionFulfils(r) ==
    /\ task[r].at = "compress"
    /\ task' = [task EXCEPT ![r].at = "generate"]
    /\ UNCHANGED <<requestVars, diskVars, cacheVars, pc, calls, response,
                   resolverVars,
                   genVars, compressVars, captionQueue, activeCaptionRequests>>

\* compressImageFromBuffer of task r throws: the catch of process() rejects
CompressionRejects(r) ==
    /\ task[r].at = "compress"
    /\ TaskReturns(r, 500)
    /\ UNCHANGED <<requestVars, diskVars, cacheVars, pc, calls, response,
                   resolverVars,
                   genVars, compressVars>>

\* axios.post of task r resolves: with a caption the promise is resolved,
\* without one it is rejected
GenerationFulfils(r, hasText) ==
    /\ task[r].at = "generate"
    /\ TaskReturns(r, IF hasText THEN 200 ELSE 500)
    /\ UNCHANGED <<requestVars, diskVars, cacheVars, pc, calls, response,
                   resolverVars,
                   genVars, compressVars>>

\* axios.post of task r rejects: the catch of process() rejects
GenerationRejects(r) ==
    /\ task[r].at = "generate"
    /\ TaskReturns(r, 500)
    /\ UNCHANGED <<requestVars, diskVars, cacheVars, pc, calls, response,
                   resolverVars,
                   genVars, compressVars>>

(***************************************************************************)
(* The disk handlers of "basic" and "serverless": POST /caption and        *)
(* POST /api/caption with compressToTargetSize and cleanupFile.  multer    *)
(* has written the upload to its temporary file before the handler runs.   *)
(***************************************************************************)
HasDiskUpload(v) == v \in {"basic", "serverless"}

\* byte lengths an encode of the disk handlers can have: at the target and
\* one byte above it
DiskEncodedSizes(kb) == {1024 * kb, 1024 * kb + 1}

\* the loop test with quality >= 10 in place of quality > 10
StepsDown_FloorInclusive(bytes, kb, q) == bytes > 1024 * kb /\ q >= 10

\* buffer.length / 1024 > targetKB && quality > 10
StepsDown(bytes, kb, q) == bytes > 1024 * kb /\ q > 10

\* Error thrown by fs or sharp, as the catch of the handler reports it
WriteMessage == "ENOSPC: no space left on device, write"

EnvMessage ==
    "Missing required environment variables: GEMINI_API1_LINK or GEMINI_API_KEY"

\* the handler going straight to its answer when the outcome is a failure
CleanThenReply_NotOnFailure(body) ==
    IF body.status # 200 THEN
        /\ Reply(body)
        /\ UNCHANGED <<outcome, cleanups>>
    ELSE
        /\ outcome' = body
        /\ cleanups' = Append(cleanups, inputPath)
        /\ pc' = "cleanupInput"
        /\ UNCHANGED response

\* the handler, its paths set, is about to answer `body`: cleanupFile is
\* called with inputPath first and awaited
CleanThenReply(body) ==
    /\ outcome' = body
    /\ cleanups' = Append(cleanups, inputPath)
    /\ pc' = "cleanupInput"
    /\ UNCHANGED response

\* the handler runs to its first await, the first encode of
\* compressToTargetSize
DiskCaptionRequest(dirOk) ==
    /\ HasDiskUpload(variant) /\ endpoint = "caption"
    /\ pc = "idle"
    /\ IF ~dirOk THEN
           /\ Throw("EACCES: permission denied, mkdir '/tmp/uploads'")
           /\ UNCHANGED <<inputPath, outputPath, targetKB, quality>>
       ELSE IF ~file.present THEN
           /\ Reply(MessageBody(400, "No image file uploaded"))
           /\ UNCHANGED <<inputPath, outputPath, targetKB, quality>>
       ELSE
           /\ inputPath' = "upload"
           /\ outputPath' = "compressed"
           /\ targetKB' = 200
           /\ quality' = 80
           /\ pc' = "awaitDiskEncode"
           /\ UNCHANGED response
    /\ UNCHANGED <<requestVars, queueVars, cacheVars, calls, resolverVars,
                   genVars, file,
                   width, height, minQ, maxQ, compressedBuffer, encodes,
                   disk, cleanups, outcome, envSet>>

\* toBuffer() resolves with `bytes` bytes: the loop steps the quality down by
\* 5 and encodes again, or the buffer is written to outputPath
DiskEncodeSettles(bytes) ==
    /\ HasDiskUpload(variant)
    /\ pc = "awaitDiskEncode"
    /\ file.decodable = "full"
    /\ bytes \in DiskEncodedSizes(targetKB)
    /\ compressedBuffer' = [quality |-> quality, bytes |-> bytes]
    /\ encodes' = Append(encodes, <<quality, bytes>>)
    /\ IF StepsDown(bytes, targetKB, quality)
       THEN quality' = quality - 5 /\ UNCHANGED pc
       ELSE pc' = "awaitWrite" /\ UNCHANGED quality
    /\ UNCHANGED <<requestVars, queueVars, diskVars, cacheVars, calls, response,
                   resolverVars, genVars, file, targetKB, width, height,
                   minQ, maxQ>>

\* toBuffer() rejects: compressToTargetSize throws it on to the handler
DiskEncodeRejects ==
    /\ HasDiskUpload(variant)
    /\ pc = "awaitDiskEncode"
    /\ file.decodable # "full"
    /\ CleanThenReply(FailureBody(500, "Input file contains unsupported image format"))
    /\ UNCHANGED <<requestVars, queueVars, cacheVars, calls, resolverVars,
                   genVars,
                   compressVars, inputPath, outputPath, disk, envSet>>

\* writeFile settles: "written", "failed" leaving no file, or "partial",
\* failed leaving a file; after a write the handler goes on to axios.post
WriteSettles(how) ==
    /\ pc = "awaitWrite"
    /\ how \in {"written", "failed", "partial"}
    /\ disk' = IF how = "failed" THEN disk ELSE disk \cup {outputPath}
    /\ IF how # "written" THEN
           /\ CleanThenReply(FailureBody(500, WriteMessage))
           /\ UNCHANGED calls
       ELSE IF ~envSet THEN
           /\ CleanThenReply(FailureBody(500, EnvMessage))
           /\ UNCHANGED calls
       ELSE
           /\ calls' = Append(calls, CaptionCall(compressedBuffer))
           /\ pc' = "awaitGen"
           /\ UNCHANGED <<response, outcome, cleanups>>
    /\ UNCHANGED <<requestVars, queueVars, cacheVars, resolverVars, genVars,
                   compressVars, inputPath, outputPath, envSet>>

\* the awaited axios.post resolves, with or without caption text
DiskCaptionFulfils(hasText) ==
    /\ HasDiskUpload(variant) /\ endpoint = "caption"
    /\ pc = "awaitGen"
    /\ geminiResponse' =
           [defined |-> TRUE, model |-> "GEMINI_API1_LINK", hasText |-> hasText]
    /\ CleanThenReply(IF hasText
                      THEN CaptionResponse
                      ELSE MessageBody(500, "No caption returned from AI service"))
    /\ UNCHANGED <<requestVars, queueVars, cacheVars, calls, resolverVars,
                   modelIdx,
                   usedModel, genErrors, compressVars, inputPath, outputPath,
                   disk, envSet>>

\* the awaited axios.post rejects
DiskCaptionRejects(status) ==
    /\ HasDiskUpload(variant) /\ endpoint = "caption"
    /\ pc = "awaitGen"
    /\ genErrors' = [genErrors EXCEPT ![1] = status]
    /\ CleanThenReply(FailureBody(500, AxiosMessage(status)))
    /\ UNCHANGED <<requestVars, queueVars, cacheVars, calls, resolverVars,
                   modelIdx,
                   geminiResponse, usedModel, compressVars, inputPath,
                   outputPath, disk, envSet>>

\* the awaited cleanupFile returns: its unlink removed the file (removed), or
\* failed and was only warned about, or there was no file; cleanupFile is
\* then called with outputPath, and after that one the handler answers
CleanupSettles(removed) ==
    /\ pc \in {"cleanupInput", "cleanupOutput"}
    /\ LET path == IF pc = "cleanupInput" THEN inputPath ELSE outputPath IN
           disk' = IF removed THEN disk \ {path} ELSE disk
    /\ IF pc = "cleanupInput" THEN
           /\ cleanups' = Append(cleanups, outputPath)
           /\ pc' = "cleanupOutput"
           /\ UNCHANGED response
       ELSE
           /\ Reply(outcome)
           /\ UNCHANGED cleanups
    /\ UNCHANGED <<requestVars, queueVars, cacheVars, calls, resolverVars,
                   genVars,
                   compressVars, inputPath, outputPath, outcome, envSet>>

(***************************************************************************)
(* Summarize requests to "clustered", one after the other, with the clock. *)
(***************************************************************************)
\* the number of summarize requests made
MaxSummaries == 3

\* the identifiers asked for: two of the right form, one too short, none
CacheIds == {Rep("a", 11), Subst(Rep("a", 11), 11, "5"), Rep("a", 10), MissingId}

\* the times at which something happens, in milliseconds: around one and two
\* times CACHE_TTL
Instants == {0, 1, 299999, 300000, 300001, 600000}

\* the next request arrives once the last one was answered
NextSummarize(id) ==
    /\ variant = "clustered" /\ endpoint = "summarize"
    /\ pc = "done"
    /\ requestNo < MaxSummaries
    /\ id \in CacheIds
    /\ requestNo' = requestNo + 1
    /\ videoId' = id
    /\ fromCache' = FALSE
    /\ pc' = "idle"
    /\ langIdx' = 0
    /\ fetch' = [i \in Cands |-> "none"]
    /\ timer' = [i \in Cands |-> "none"]
    /\ raceResult' = [i \in Cands |-> "none"]
    /\ transcriptData' = NoTranscript
    /\ usedLanguage' = "undefined"
    /\ modelIdx' = 0
    /\ geminiResponse' = NoGeminiResponse
    /\ usedModel' = "undefined"
    /\ genErrors' = [i \in Cands |-> -1]
    /\ calls' = <<>>
    /\ response' = NoResponse
    /\ UNCHANGED <<variant, endpoint, queueVars, diskVars, compressVars,
                   responseCache, now>>

\* time passes
ClockAdvances(t) ==
    /\ variant = "clustered" /\ endpoint = "summarize"
    /\ t \in Instants
    /\ t > now
    /\ now' = t
    /\ UNCHANGED <<requestVars, queueVars, diskVars, pc, calls, response,
                   resolverVars, genVars, compressVars, responseCache,
                   fromCache, requestNo>>

(***************************************************************************)
(* Specifications.                                                         *)
(***************************************************************************)
NotCompressing ==
    /\ targetKB = 0
    /\ width = 0
    /\ height = 0
    /\ minQ = 0
    /\ maxQ = 0
    /\ quality = 0
    /\ compressedBuffer = [quality |-> 0, bytes |-> 0]
    /\ encodes = <<>>

Idle ==
    /\ pc = "idle"
    /\ langIdx = 0
    /\ fetch = [i \in Cands |-> "none"]
    /\ timer = [i \in Cands |-> "none"]
    /\ raceResult = [i \in Cands |-> "none"]
    /\ transcriptData = NoTranscript
    /\ usedLanguage = "undefined"
    /\ modelIdx = 0
    /\ geminiResponse = NoGeminiResponse
    /\ usedModel = "undefined"
    /\ genErrors = [i \in Cands |-> -1]
    /\ calls = <<>>
    /\ response = NoResponse

CacheIdle ==
    /\ responseCache = [k \in VideoIdInputs |-> NoEntry]
    /\ now = 0
    /\ fromCache = FALSE
    /\ requestNo = 1

QueueIdle ==
    /\ captionQueue = <<>>
    /\ activeCaptionRequests = 0
    /\ task = [r \in Requests |-> NoTask]

DiskIdle ==
    /\ inputPath = "null"
    /\ outputPath = "null"
    /\ disk = {}
    /\ cleanups = <<>>
    /\ outcome = NoResponse

\* one summarize request, to any of the four iterations
Init ==
    /\ variant \in Variants
    /\ endpoint = "summarize"
    /\ videoId \in VideoIdInputs
    /\ file = [present |-> FALSE, decodable |-> "none", width |-> 0, height |-> 0]
    /\ Idle
    /\ NotCompressing
    /\ QueueIdle
    /\ CacheIdle
    /\ DiskIdle
    /\ envSet = TRUE

Next ==
    \/ SummarizeRequest
    \/ \E t \in UNION {SubtitleResults(l.code) : l \in {langs(variant)[i] : i \in Cands}} :
          FetchFulfils(t)
    \/ FetchRejects
    \/ TimeoutFires
    \/ \E i \in Cands, how \in {"fulfilled", "rejected"} : LateFetchSettles(i, how)
    \/ \E i \in Cands : StaleTimerFires(i)
    \/ \E hasText \in BOOLEAN : GenerateFulfils(hasText)
    \/ \E status \in ErrorStatuses : GenerateRejects(status)

Spec == Init /\ [][Next]_vars

\* one caption request to "limited"
CaptionInit ==
    /\ variant = "limited"
    /\ endpoint = "caption"
    /\ videoId = MissingId
    /\ file \in FileInputs
    /\ Idle
    /\ NotCompressing
    /\ QueueIdle
    /\ CacheIdle
    /\ DiskIdle
    /\ envSet = TRUE

CaptionNext ==
    \/ CaptionRequest
    \/ MetadataSettles
    \/ \E bytes \in EncodedSizes(targetKB) : EncodeSettles(bytes)
    \/ EncodeRejects
    \/ \E hasText \in BOOLEAN : CaptionFulfils(hasText)
    \/ \E status \in ErrorStatuses : CaptionRejects(status)

CaptionSpec == CaptionInit /\ [][CaptionNext]_vars

\* widths and heights of uploads: small, at and around maxDim, above it, and
\* pairs whose scaled size is half-way between two integers
Dimensions == {1, 11, 13, 600, 1919, 1920, 1921, 2816, 3328, 3840, 4000, 10000}

\* one caption request to "limited" with an image of any of these sizes,
\* followed up to the dimensions passed to resize
ResizeInit ==
    /\ variant = "limited"
    /\ endpoint = "caption"
    /\ videoId = MissingId
    /\ file \in [present : {TRUE}, decodable : {"header"},
                 width : Dimensions, height : Dimensions]
    /\ Idle
    /\ NotCompressing
    /\ QueueIdle
    /\ CacheIdle
    /\ DiskIdle
    /\ envSet = TRUE

ResizeNext ==
    \/ CaptionRequest
    \/ MetadataSettles

ResizeSpec == ResizeInit /\ [][ResizeNext]_vars

\* one caption request to a disk handler
DiskInit ==
    /\ variant \in {"basic", "serverless"}
    /\ endpoint = "caption"
    /\ videoId = MissingId
    /\ file \in FileInputs
    /\ Idle
    /\ NotCompressing
    /\ QueueIdle
    /\ CacheIdle
    /\ inputPath = "null"
    /\ outputPath = "null"
    /\ disk = IF file.present THEN {"upload"} ELSE {}
    /\ cleanups = <<>>
    /\ outcome = NoResponse
    /\ envSet \in BOOLEAN

DiskNext ==
    \/ \E dirOk \in BOOLEAN : DiskCaptionRequest(dirOk)
    \/ \E bytes \in DiskEncodedSizes(targetKB) : DiskEncodeSettles(bytes)
    \/ DiskEncodeRejects
    \/ \E how \in {"written", "failed", "partial"} : WriteSettles(how)
    \/ \E hasText \in BOOLEAN : DiskCaptionFulfils(hasText)
    \/ \E status \in ErrorStatuses : DiskCaptionRejects(status)
    \/ \E removed \in BOOLEAN : CleanupSettles(removed)

DiskSpec == DiskInit /\ [][DiskNext]_vars

\* summarize requests to "clustered", served one after the other
CacheInit ==
    /\ variant = "clustered"
    /\ endpoint = "summarize"
    /\ videoId \in CacheIds
    /\ file = [present |-> FALSE, decodable |-> "none", width |-> 0, height |-> 0]
    /\ Idle
    /\ NotCompressing
    /\ QueueIdle
    /\ CacheIdle
    /\ DiskIdle
    /\ envSet = TRUE

CacheNext ==
    \/ SummarizeRequest
    \/ \E t \in SubtitleResults("hi") : FetchFulfils(t)
    \/ FetchRejects
    \/ TimeoutFires
    \/ \E hasText \in BOOLEAN : GenerateFulfils(hasText)
    \/ \E status \in ErrorStatuses : GenerateRejects(status)
    \/ \E id \in CacheIds : NextSummarize(id)
    \/ \E t \in Instants : ClockAdvances(t)

CacheSpec == CacheInit /\ [][CacheNext]_vars

\* the caption requests that arrive at "clustered", through its queue
QueueInit ==
    /\ variant = "clustered"
    /\ endpoint = "caption"
    /\ videoId = MissingId
    /\ file = [present |-> FALSE, decodable |-> "none", width |-> 0, height |-> 0]
    /\ Idle
    /\ NotCompressing
    /\ QueueIdle
    /\ CacheIdle
    /\ DiskIdle
    /\ envSet = TRUE

QueueNext ==
    \/ \E hasFile \in BOOLEAN : CaptionArrives(hasFile)
    \/ \E r \in Requests : CompressionFulfils(r)
    \/ \E r \in Requests : CompressionRejects(r)
    \/ \E r \in Requests, hasText \in BOOLEAN : GenerationFulfils(r, hasText)
    \/ \E r \in Requests : GenerationRejects(r)

QueueSpec == QueueInit /\ [][QueueNext]_vars

\* the event loop runs the handler and fires every armed timer; nothing makes
\* getSubtitles or axios.post settle
Fairness ==
    /\ WF_vars(SummarizeRequest)
    /\ WF_vars(TimeoutFires)
    /\ \A i \in Cands : WF_vars(StaleTimerFires(i))

FairSpec == Spec /\ Fairness

\* a task that was started finishes: its compressImageFromBuffer returns or
\* throws, and its axios.post settles (at the latest by its timeout of 15 s,
\* part_000:266)
TaskSettles ==
    \E r \in Requests :
        \/ CompressionFulfils(r)
        \/ CompressionRejects(r)
        \/ GenerationRejects(r)
        \/ \E hasText \in BOOLEAN : GenerationFulfils(r, hasText)

\* while tasks are running one of them settles; a task settles at most twice,
\* so every started task finishes
TaskFairness == WF_vars(TaskSettles)

\* the requests that reach the queue: every arriving request carries a file
QueueFairNext ==
    \/ CaptionArrives(TRUE)
    \/ TaskSettles

QueueFairSpec == QueueInit /\ [][QueueFairNext]_vars /\ TaskFairness

(***************************************************************************)
(* What the outside world has seen of a request.                           *)
(***************************************************************************)
\* the getSubtitles calls made so far, by candidate code, in order
SubtitleCalls ==
    SelectSeq(calls, LAMBDA c : c.api = "getSubtitles")

\* the axios.post calls made so far, in order
GenerateCalls ==
    SelectSeq(calls, LAMBDA c : c.api = "axios.post")

\* candidate i was tried and gave no result to the resolver
CandidateFailed(i) == raceResult[i] \in {"rejected", "timeout"}

\* the request was answered
Answered == response.status # 0

\* the request was answered with a success
AnsweredSuccess == response.status = 200 /\ response.success

(***************************************************************************)
(* Claims.                                                                 *)
(***************************************************************************)

\* C1: in the model loop, a candidate that fails with an error other than
\* not-found (404) ends the request with that error, and no later candidate
\* is called, whatever the position of the failing candidate.
C1_NonNotFoundIsFatal ==
    HasModelLoop(variant) =>
        \A i \in 1..Len(modelNames(variant)) :
            genErrors[i] \notin {-1, 404} =>
                /\ Len(GenerateCalls) = i
                /\ pc = "done"
                /\ response = FailureBody(500, AxiosMessage(genErrors[i]))

\* C2: in the timeout variants a candidate that fails, times out or resolves
\* with an empty result makes the resolver go on to the next candidate; it
\* stops only on a non-empty result, and no candidate is tried twice.
C2_EmptyOrFailedGoesOn ==
    HasTimeout(variant) =>
        /\ \A i \in 1..2 :
              (\/ CandidateFailed(i)
               \/ raceResult[i] = "fulfilled" /\ transcriptData.frags = 0)
              => raceResult[i + 1] # "none"
        /\ \A a, b \in 1..Len(SubtitleCalls) :
              SubtitleCalls[a].arg = SubtitleCalls[b].arg => a = b

\* compressImageFromBuffer has returned compressedBuffer
CompressReturned ==
    /\ endpoint = "caption"
    /\ pc \in {"awaitGen", "done"}
    /\ encodes # <<>>

\* the sizes measured do not decrease with the quality
MonotoneSizes ==
    \A a, b \in 1..Len(encodes) :
        encodes[a][1] <= encodes[b][1] => encodes[a][2] <= encodes[b][2]

\* C3: the buffer returned is at most target + 10 KB, or it is the encoding
\* at quality 10 and that encoding is above the target (sizes non-decreasing
\* in the quality).
C3_WithinTolerance ==
    (CompressReturned /\ MonotoneSizes) =>
        \/ compressedBuffer.bytes <= 1024 * (targetKB + 10)
        \/ /\ compressedBuffer.quality = 10
           /\ ~FitsTarget(compressedBuffer.bytes, targetKB)

\* C4: the buffer returned is at or below the target whenever some quality in
\* [10, 95] encodes at or below the target (sizes non-decreasing in quality).
C4_AtOrBelowTarget ==
    (/\ CompressReturned
     /\ MonotoneSizes
     /\ \E a \in 1..Len(encodes) : FitsTarget(encodes[a][2], targetKB))
    => FitsTarget(compressedBuffer.bytes, targetKB)

\* C5: a generation response without text is a failure: neither endpoint
\* answers it with a success.
C5_NoTextIsFailure ==
    (geminiResponse.defined /\ ~geminiResponse.hasText /\ Answered) =>
        /\ response.status # 200
        /\ ~response.success

\* C6: an identifier that is not 11 characters of [a-zA-Z0-9_-] is rejected
\* with a validation error before any getSubtitles call, in every variant.
C6_InvalidIdRejected ==
    (endpoint = "summarize" /\ ~MatchesIdPattern(videoId)) =>
        /\ SubtitleCalls = <<>>
        /\ Answered => response.status = 400

\* the display name of candidate K
DisplayNames(K) ==
    CASE K = 1 -> {"Hindi"}
      [] K = 2 -> {"English"}
      [] K = 3 -> {"Auto", "Auto-detected"}

\* candidate K resolved with a non-empty result after every earlier one failed
FirstSuccess(K) ==
    /\ raceResult[K] = "fulfilled"
    /\ transcriptData.frags > 0
    /\ \A j \in 1..(K - 1) : CandidateFailed(j)

\* C7: when candidate K succeeds with a non-empty result and every earlier
\* candidate failed or timed out, the prompt is built from K's content, K's
\* display name is reported, and no candidate after K is called.
C7_FirstSuccessWins ==
    \A K \in Cands :
        FirstSuccess(K) =>
            /\ Len(SubtitleCalls) = K
            /\ \A j \in (K + 1)..3 : fetch[j] = "none"
            /\ transcriptData.src = SubtitleCalls[K].arg
            /\ \A k \in 1..Len(GenerateCalls) :
                  GenerateCalls[k].prompt.text.src = SubtitleCalls[K].arg
            /\ usedLanguage \in DisplayNames(K)
            /\ AnsweredSuccess => response.transcriptLanguage \in DisplayNames(K)

\* a later candidate won after an earlier one timed out, and was summarised
C7_Witness ==
    /\ \E K \in 2..3 : FirstSuccess(K) /\ raceResult[K - 1] = "timeout"
    /\ AnsweredSuccess
    /\ response.transcriptLanguage = "English"

NoTranscriptMessages ==
    {"No transcript available",
     "No transcript available for this video",
     "No transcript found in Hindi, English, or auto-generated formats.",
     "No transcript available for video ID"}

\* C8: when all three candidates fail, the request fails with the
\* no-transcript error, and the three getSubtitles calls are the only
\* external calls made for it.
C8_AllFailedNoFurtherCalls ==
    (\A i \in Cands : CandidateFailed(i)) =>
        /\ pc = "done"
        /\ response.status = 500
        /\ ~response.success
        /\ response.error \in NoTranscriptMessages
        /\ calls = <<SubtitleCall("hi"), SubtitleCall("en"), SubtitleCall("none")>>

\* all three candidates failed, one of them by its timeout
C8_Witness ==
    /\ \A i \in Cands : CandidateFailed(i)
    /\ raceResult[2] = "timeout"
    /\ raceResult[3] = "rejected"
    /\ Answered

\* the resolver is waiting for candidate i
AwaitingCandidate(i) == pc = "awaitTranscript" /\ langIdx = i

\* C9: every candidate attempt is bounded: the resolver never waits forever
\* on a transcript source, in every variant.
C9_TranscriptWaitIsBounded ==
    \A i \in Cands : AwaitingCandidate(i) ~> ~AwaitingCandidate(i)

\* C10: the result comes from the first candidate that does not fail with
\* 404; its model name is reported; the candidates are called in list order,
\* each at most once, and none after the one that answered.
C10_FirstNon404Decides ==
    HasModelLoop(variant) =>
        /\ \A k \in 1..Len(GenerateCalls) :
              GenerateCalls[k].arg = modelNames(variant)[k]
        /\ \A i \in 1..Len(modelNames(variant)) :
              (geminiResponse.defined /\ geminiResponse.model = modelNames(variant)[i]) =>
                  /\ \A j \in 1..(i - 1) : genErrors[j] = 404
                  /\ Len(GenerateCalls) = i
                  /\ AnsweredSuccess
                  /\ response.modelUsed = modelNames(variant)[i]
                  /\ response.summary.model \in {modelNames(variant)[i], "none"}

\* every one of the three model candidates failed with not-found
AllModelsNotFound ==
    /\ HasModelLoop(variant)
    /\ \A i \in 1..3 : genErrors[i] = 404

\* C11: when each of the three model candidates fails with not-found, the
\* request fails with the all-models-failed error after one call to each
\* candidate in list order, and it never answers with a success.
C11_AllNotFoundFails ==
    AllModelsNotFound =>
        /\ pc = "done"
        /\ response.status = 500
        /\ ~response.success
        /\ response.error \in {"All Gemini models failed",
                               "All Gemini models failed to generate summary"}
        /\ Len(GenerateCalls) = 3
        /\ GenerateCalls[1].arg = "gemini-1.5-flash"
        /\ GenerateCalls[2].arg = "gemini-1.5-pro"
        /\ GenerateCalls[3].arg = "gemini-pro"
        /\ ~geminiResponse.defined

\* the three candidates were called after a transcript was found, and all
\* three answered 404
C11_Witness ==
    /\ AllModelsNotFound
    /\ transcriptData.defined
    /\ Answered

\* C12: under every interleaving of arrivals and completions, at most five
\* tasks run at once: activeCaptionRequests stays between 0 and 5 and is the
\* number of tasks started and not yet finished.
C12_AtMostFiveRunning ==
    /\ activeCaptionRequests >= 0
    /\ activeCaptionRequests <= 5
    /\ activeCaptionRequests =
           Cardinality({r \in Requests : task[r].runs > 0 /\ task[r].at # "done"})
    /\ Cardinality({r \in Requests : task[r].at \in {"compress", "generate"}}) <= 5

\* five tasks run while a sixth waits in the queue
C12_Witness ==
    /\ activeCaptionRequests = 5
    /\ Len(captionQueue) = 1
    /\ \E r \in Requests : task[r].at = "generate"

\* C13: in the timeout variants the joined transcript goes into the prompt
\* unmodified when it has at most 8000 characters, and as its first 8000
\* characters followed by "..." when it has more; the transcript part of the
\* prompt is never longer than 8003 characters.
C13_TruncatedAt8000 ==
    HasTimeout(variant) =>
        \A k \in 1..Len(GenerateCalls) :
            LET sent == GenerateCalls[k].prompt.text IN
                /\ sent.len <= 8003
                /\ sent.src = transcriptData.src
                /\ (transcriptData.textLen <= 8000) =>
                       (sent.len = transcriptData.textLen /\ ~sent.truncated)
                /\ (transcriptData.textLen > 8000) =>
                       (sent.len = 8003 /\ sent.truncated)

\* a transcript of 9000 characters was sent as 8003
C13_Witness ==
    /\ HasTimeout(variant)
    /\ transcriptData.textLen = 9000
    /\ GenerateCalls # <<>>
    /\ GenerateCalls[1].prompt.text.len = 8003

\* C14: every failure answered by the caption and summarize endpoints has
\* the body {success: false, error: <string>}, whatever the failing path.
C14_FailureShape ==
    (Answered /\ response.status # 200) =>
        /\ response.keys = {"success", "error"}
        /\ ~response.success
        /\ response.error # ""

\* the dimensions passed to resize have been computed
Resized == endpoint = "caption" /\ pc = "awaitEncode" /\ encodes = <<>>

\* n is an integer nearest to a / b
Nearest(n, a, b) == 2 * n * b - 2 * a <= b /\ 2 * a - 2 * n * b <= b

\* C15: downscaling never increases a dimension: both outputs are at most
\* the inputs and at most 1920, they are the inputs when neither is above
\* 1920, and otherwise both are the inputs times min(1920/w, 1920/h), rounded
\* to the nearest integer.
C15_DownscaleOnly ==
    Resized =>
        LET w == file.width
            h == file.height
            larger == IF w > h THEN w ELSE h
        IN  /\ width <= w /\ height <= h
            /\ width <= 1920 /\ height <= 1920
            /\ (w <= 1920 /\ h <= 1920) => (width = w /\ height = h)
            /\ (w > 1920 \/ h > 1920) =>
                   /\ Nearest(width, w * 1920, larger)
                   /\ Nearest(height, h * 1920, larger)

\* a 4000 x 600 image is passed on as 1920 x 288
C15_Witness ==
    /\ Resized
    /\ file.width = 4000 /\ file.height = 600
    /\ width = 1920 /\ height = 288

\* C16: in the disk handlers, once the paths of the temporary input and
\* output files are set, every answer, success or failure, comes after
\* cleanupFile was called with each of the two paths.
C16_CleanupBeforeAnswer ==
    (HasDiskUpload(variant) /\ Answered /\ inputPath # "null") =>
        /\ outputPath # "null"
        /\ \E a \in 1..Len(cleanups) : cleanups[a] = inputPath
        /\ \E a \in 1..Len(cleanups) : cleanups[a] = outputPath

\* a failed generation call was answered after both cleanups
C16_Witness ==
    /\ HasDiskUpload(variant)
    /\ Answered
    /\ response.status = 500
    /\ genErrors[1] = 429
    /\ cleanups = <<"upload", "compressed">>
    /\ disk = {}

\* what holds of the encodes made so far by the binary search
BoundedSearch ==
    /\ Len(encodes) <= 7
    /\ (pc = "awaitGen") => (Len(encodes) >= 1)
    /\ \A a \in 1..Len(encodes) : encodes[a][1] >= 10 /\ encodes[a][1] <= 95
    /\ \A a, b \in 1..Len(encodes) : (encodes[a][1] = encodes[b][1]) => (a = b)

\* C17: the binary search makes at least 1 and at most 7 encodes, every
\* quality it tries is in [10, 95], none is tried twice, and each turn of the
\* loop makes the interval [minQ, maxQ] strictly smaller.
C17_SearchIsBounded ==
    [][/\ BoundedSearch'
       /\ (encodes' # encodes) => (maxQ' - minQ' < maxQ - minQ)]_vars

\* the search returned after seven encodes
C17_Witness ==
    /\ endpoint = "caption"
    /\ pc = "awaitGen"
    /\ Len(encodes) = 7

\* the caption calls made so far
CaptionCalls == SelectSeq(calls, LAMBDA c : c.arg = "GEMINI_API1_LINK")

\* C18: the buffer returned is the one of the last encode of the loop, at
\* the last midpoint quality, also when an earlier encode was at or below
\* the target and the last one is above it; it is the image sent on.
C18_LastAttemptWins ==
    CompressReturned =>
        /\ compressedBuffer.quality = encodes[Len(encodes)][1]
        /\ compressedBuffer.bytes = encodes[Len(encodes)][2]
        /\ compressedBuffer.quality = quality
        /\ Len(CaptionCalls) = 1
        /\ CaptionCalls[1].prompt.text.len = encodes[Len(encodes)][2]

\* the buffer returned is above the target though an earlier encode was not
C18_Witness ==
    /\ CompressReturned
    /\ compressedBuffer.bytes > 1024 * targetKB
    /\ \E a \in 1..(Len(encodes) - 1) : encodes[a][2] <= 1024 * targetKB
    /\ MonotoneSizes

\* an encode of `bytes` bytes is less than 10 KB away from the target
Within10KB(bytes) ==
    /\ bytes - 1024 * targetKB < 10240
    /\ 1024 * targetKB - bytes < 10240

\* the largest and the smallest number of a non-empty finite set of integers
MaxOf(S) == CHOOSE x \in S : \A y \in S : y <= x

MinOf(S) == CHOOSE x \in S : \A y \in S : x <= y

\* C19: the loop stops at the first encode less than 10 KB away from the
\* target and encodes nothing after it; otherwise it goes on until minQ is
\* above maxQ.  An encode at or below the target raises the floor to its
\* quality + 1, any other lowers the ceiling to its quality - 1.
C19_StopsWhenCloseOrCrossed ==
    (endpoint = "caption" /\ variant = "limited" /\ encodes # <<>>) =>
        /\ \A a \in 1..(Len(encodes) - 1) : ~Within10KB(encodes[a][2])
        /\ minQ = MaxOf({10} \cup {encodes[a][1] + 1 : a \in
                      {b \in 1..Len(encodes) : encodes[b][2] <= 1024 * targetKB}})
        /\ maxQ = MinOf({95} \cup {encodes[a][1] - 1 : a \in
                      {b \in 1..Len(encodes) : encodes[b][2] > 1024 * targetKB}})
        /\ (pc = "awaitEncode") =>
               /\ ~Within10KB(encodes[Len(encodes)][2])
               /\ minQ <= maxQ
        /\ (pc \in {"awaitGen", "done"}) =>
               \/ Within10KB(encodes[Len(encodes)][2])
               \/ minQ > maxQ

\* the loop stopped at a close encode, its third, with the bounds not crossed
C19_Witness ==
    /\ endpoint = "caption"
    /\ pc = "awaitGen"
    /\ Len(encodes) = 3
    /\ Within10KB(encodes[3][2])
    /\ minQ <= maxQ

\* C20: the transcript loop is sequential: the getSubtitles call of
\* candidate i + 1 is made only after candidate i was seen to fail or time
\* out, the candidates are called in the order Hindi, English, auto, and
\* none is called after one has resolved.
C20_OneCandidateAtATime ==
    HasTimeout(variant) =>
        /\ \A i \in 1..2 :
              (fetch[i + 1] # "none") => (raceResult[i] \in {"rejected", "timeout"})
        /\ \A i \in Cands :
              (raceResult[i] = "fulfilled") =>
                  (\A j \in (i + 1)..3 : fetch[j] = "none")
        /\ Cardinality({i \in Cands : raceResult[i] = "pending"}) <= 1
        /\ Len(SubtitleCalls) = Cardinality({i \in Cands : fetch[i] # "none"})
        /\ \A k \in 1..Len(SubtitleCalls) :
              SubtitleCalls[k].arg = <<"hi", "en", "none">>[k]

\* English was called after Hindi timed out and resolved while the Hindi call
\* was still in flight; the auto candidate was never called
C20_Witness ==
    /\ HasTimeout(variant)
    /\ raceResult[1] = "timeout"
    /\ fetch[1] = "pending"
    /\ raceResult[2] = "fulfilled"
    /\ fetch[3] = "none"
    /\ Len(SubtitleCalls) = 2

\* the race of candidate i was lost to its timer
TimedOut(i) == HasTimeout(variant) /\ raceResult[i] = "timeout"

\* C21: a candidate whose attempt timed out is abandoned: whether and
\* whenever its getSubtitles call settles afterwards, its result is not the
\* transcript used, nothing sent to the model comes from it, and its name is
\* not the language reported.
C21_LateResultDiscarded ==
    \A i \in Cands :
        TimedOut(i) =>
            /\ ~(transcriptData.defined /\ transcriptData.src = <<"hi", "en", "none">>[i])
            /\ usedLanguage \notin DisplayNames(i)
            /\ \A k \in 1..Len(GenerateCalls) :
                  GenerateCalls[k].prompt.text.src # <<"hi", "en", "none">>[i]
            /\ AnsweredSuccess => response.transcriptLanguage \notin DisplayNames(i)

\* Hindi timed out, its call resolved while English was awaited, and the
\* summary was made from the English transcript
C21_Witness ==
    /\ TimedOut(1)
    /\ fetch[1] = "fulfilled"
    /\ raceResult[2] = "fulfilled"
    /\ transcriptData.src = "en"
    /\ AnsweredSuccess
    /\ response.transcriptLanguage = "English"

\* C22: waiting tasks are started in arrival order: while a request waits in
\* captionQueue no request that arrived after it has had its task started,
\* and the queue holds the waiting requests in the order of their arrival.
C22_StartedInArrivalOrder ==
    /\ \A a, b \in Requests :
          (a < b /\ task[a].at = "queued") => (task[b].runs = 0)
    /\ \A i, j \in 1..Len(captionQueue) :
          (i < j) => (captionQueue[i] < captionQueue[j])
    /\ \A r \in Requests :
          (task[r].at = "queued") <=> (\E i \in 1..Len(captionQueue) : captionQueue[i] = r)

\* two requests waited; the earlier one has been started, the later one waits
C22_Witness ==
    /\ captionQueue = <<7>>
    /\ task[6].at = "compress"
    /\ task[6].runs = 1
    /\ \E r \in 1..5 : task[r].at = "done" /\ task[r].runs = 1

\* C23: the queue is drained: when every started task finishes, every task
\* waiting in captionQueue is started and its request is answered.  The first
\* five requests never wait; a later one, which can arrive while five tasks
\* are running, is started and answered once it waits.
C23_QueueIsDrained ==
    /\ [](\A r \in 1..5 : task[r].at # "queued")
    /\ \A r \in 6..MaxRequests :
          (task[r].at = "queued") ~>
              (task[r].at = "done" /\ task[r].runs = 1 /\ task[r].status \in {200, 500})

\* two tasks wait behind five running ones
C23_Witness ==
    /\ Len(captionQueue) = 2
    /\ activeCaptionRequests = 5
    /\ \A r \in 1..5 : task[r].at \in {"compress", "generate"}

\* compressToTargetSize has left its loop
DiskCompressDone ==
    /\ HasDiskUpload(variant)
    /\ pc \notin {"idle", "awaitDiskEncode"}
    /\ encodes # <<>>

\* C24: compressToTargetSize starts at quality 80 and steps down by 5 while
\* the encoding is above the target and the quality above 10: it makes at
\* most 15 encodes, never goes below quality 10, and the buffer it writes and
\* returns is at or below the target or is the encoding at quality 10.
C24_StepDownIsBounded ==
    (HasDiskUpload(variant) /\ endpoint = "caption") =>
        /\ Len(encodes) <= 15
        /\ \A a \in 1..Len(encodes) :
              /\ encodes[a][1] = 80 - 5 * (a - 1)
              /\ encodes[a][1] >= 10
        /\ \A a \in 1..(Len(encodes) - 1) : encodes[a][2] > 1024 * 200
        /\ (pc = "awaitDiskEncode") => (quality >= 10 /\ quality <= 80)
        /\ DiskCompressDone =>
              /\ compressedBuffer.quality = encodes[Len(encodes)][1]
              /\ compressedBuffer.bytes = encodes[Len(encodes)][2]
              /\ \/ compressedBuffer.bytes <= 1024 * 200
                 \/ compressedBuffer.quality = 10
        /\ \A k \in 1..Len(CaptionCalls) :
              CaptionCalls[k].prompt.text.len = compressedBuffer.bytes

\* fifteen encodes were made and the one at quality 10, still above the
\* target, was written and sent on
C24_Witness ==
    /\ DiskCompressDone
    /\ Len(encodes) = 15
    /\ compressedBuffer.quality = 10
    /\ compressedBuffer.bytes > 1024 * 200
    /\ "compressed" \in disk
    /\ Len(CaptionCalls) = 1

\* C25: whenever a task waits in captionQueue between two turns of the event
\* loop, five tasks are running: a waiting task always has five running
\* loops of processCaptionQueue, each of which takes from the queue when its
\* task finishes.
C25_QueuedOnlyWhenFull ==
    (Len(captionQueue) > 0) =>
        /\ activeCaptionRequests = 5
        /\ Cardinality({r \in Requests : task[r].at \in {"compress", "generate"}}) = 5

\* a task finished while another waited, and a later request waits again
C25_Witness ==
    /\ Len(captionQueue) = 1
    /\ activeCaptionRequests = 5
    /\ task[6].runs = 1
    /\ task[7].at = "queued"
    /\ \E r \in 1..5 : task[r].at = "done" /\ task[r].runs = 1

\* what holds of every request: its task is run at most once, its promise
\* settled at most once, and it is answered when and only when it has been
\* settled (or had no file)
OncePerRequest ==
    \A r \in Requests :
        /\ task[r].runs <= 1
        /\ task[r].settles <= 1
        /\ (task[r].at \in {"none", "queued"}) =>
               (task[r].runs = 0 /\ task[r].settles = 0 /\ task[r].status = 0)
        /\ (task[r].at \in {"compress", "generate"}) =>
               (task[r].runs = 1 /\ task[r].settles = 0 /\ task[r].status = 0)
        /\ (task[r].at = "done") =>
               \/ task[r].runs = 0 /\ task[r].settles = 0 /\ task[r].status = 400
               \/ task[r].runs = 1 /\ task[r].settles = 1 /\ task[r].status \in {200, 500}

\* C26: every request with a file has its task run exactly once and its
\* promise settled exactly once, and gets exactly one answer; the return of
\* one request's task settles and answers that request only.
C26_SettledExactlyOnce ==
    [][/\ OncePerRequest'
       /\ \A r \in Requests :
             (task'[r].settles # task[r].settles \/ task'[r].status # task[r].status) =>
                 /\ task[r].status = 0
                 /\ task'[r].status # 0
                 /\ \A o \in Requests \ {r} :
                       /\ task'[o].settles = task[o].settles
                       /\ task'[o].status = task[o].status]_vars

\* seven requests with a file were each run, settled and answered once, some
\* with a caption and some with an error
C26_Witness ==
    /\ \A r \in Requests :
          task[r].at = "done" /\ task[r].runs = 1 /\ task[r].settles = 1
    /\ task[6].status = 200
    /\ task[7].status = 500
    /\ activeCaptionRequests = 0

\* the keys under which something is stored
CachedKeys == {k \in VideoIdInputs : responseCache[k].cached}

\* what is stored: answers with status 200 only, each under the identifier it
\* is about, which has the right form
SuccessesOnly ==
    \A k \in CachedKeys :
        /\ responseCache[k].data.status = 200
        /\ responseCache[k].data.success
        /\ responseCache[k].data.videoId = k
        /\ Len(k) = 11
        /\ \A i \in 1..Len(k) : k[i] \in PatternChars
        /\ responseCache[k].timestamp <= now

\* what an answer from the cache is: the stored answer, with no call made
ServedFromCache ==
    fromCache =>
        /\ pc = "done"
        /\ videoId \in CachedKeys
        /\ response = responseCache[videoId].data
        /\ response.status = 200
        /\ calls = <<>>

\* C27: only answers with status 200 are stored in responseCache, each for a
\* videoId of the right form; an answer served from the cache is such an
\* entry, is younger than CACHE_TTL when it is served, and is given without
\* any getSubtitles or generation call.
C27_OnlySuccessesCached ==
    [][ /\ SuccessesOnly'
        /\ ServedFromCache'
        /\ (~fromCache /\ fromCache') =>
               (now' - responseCache'[videoId'].timestamp < CACHE_TTL) ]_vars

\* a second request for the same video was answered from the cache 299999 ms
\* after the first was stored
C27_Witness ==
    /\ fromCache
    /\ requestNo = 2
    /\ now - responseCache[videoId].timestamp = 299999
    /\ response.status = 200
    /\ calls = <<>>

\* a request made 300000 ms after the answer was stored is worked out again
C27_Witness_Expired ==
    /\ ~fromCache
    /\ requestNo = 2
    /\ pc = "done"
    /\ response.status = 200
    /\ calls # <<>>
    /\ now = 300000
    /\ responseCache[videoId].timestamp = 300000


\* C28: for every image whose width and height are at least 1, the width and
\* the height passed to resize are both at least 1.
C28_AtLeastOnePixel ==
    (Resized /\ file.width >= 1 /\ file.height >= 1) =>
        (width >= 1 /\ height >= 1)

\* a 10000 x 1 image: 1 * (1920 / 10000) is 0.192, which rounds to 0
C28_TenThousandByOne ==
    (Resized /\ file.width = 10000 /\ file.height = 1) => height >= 1

====
